---- MODULE Spec2Model ----
(***************************************************************************)
(* Model of the devfile parser's resolution pipeline (package parser:      *)
(* parseDevfile, Parse, ParseRawDevfile, ParseFromURL, ParseFromData,      *)
(* parseParentAndPlugin) and of the generator's addSyncFolder.             *)
(*                                                                         *)
(* Go values are modelled as follows.  A pointer or interface that may be  *)
(* nil is a sequence of length 0 (nil) or 1 (the value pointed to).  A     *)
(* string that the code inspects character by character (clonePath, the    *)
(* source root, a project name) is a sequence of one-character strings.    *)
(* The recursion of ParseFromURL -> parseDevfile -> parseParentAndPlugin   *)
(* -> ParseFromURL is an explicit call stack of frames.                    *)
(***************************************************************************)
EXTENDS Integers, Sequences, FiniteSets, TLC

\* Deepest call stack the model follows (frames of parseDevfile).
MaxDepth == 5
\* Longest clonePath / project name / source root, in characters.
MaxLen == 3

None == <<>>
Some(x) == <<x>>

------------------------------------------------------------------------------
\* Data contracts: WorkspaceContent, overrides, references, components.

EmptyContent == [components |-> <<>>, commands |-> <<>>, projects |-> <<>>]

\* v1.ParentOverrides{} / v1.PluginOverrides{}: nothing is overridden.
NoOverrides == [components |-> <<>>, commands |-> <<>>, projects |-> <<>>]

Elem(n, v) == [name |-> n, val |-> v]

\* An ordinary (Container, Volume, ...) component: Plugin == nil.
Comp(n, v) == [name |-> n, val |-> v, plugin |-> None]

\* A Plugin-variant component: Plugin points to a PluginComponent.
PluginComp(n, u, i, o) ==
    [name |-> n, val |-> 0, plugin |-> Some([uri |-> u, id |-> i, ov |-> o])]

\* &v1.PluginComponent{} and &v1.Parent{}: the import reference with every field zero.
ZeroRef == [uri |-> "", id |-> "", ov |-> NoOverrides]

OvComp(n, v) == [components |-> <<Elem(n, v)>>, commands |-> <<>>, projects |-> <<>>]
OvCmd(n, v) == [components |-> <<>>, commands |-> <<Elem(n, v)>>, projects |-> <<>>]

Range(s) == {s[i] : i \in 1..Len(s)}
Names(s) == {s[i].name : i \in 1..Len(s)}

------------------------------------------------------------------------------
\* The override and merge operations of the imported overriding package
\* (apiOverride), which parseParentAndPlugin calls.

PatchOf(patches, n) == CHOOSE p \in Range(patches) : p.name = n

\* One top-level list with every element named by a patch replaced by the patch.
PatchList(list, patches) ==
    [i \in 1..Len(list) |->
        IF list[i].name \in Names(patches)
        THEN [list[i] EXCEPT !.val = PatchOf(patches, list[i].name).val]
        ELSE list[i]]

\* The override keys that name no element of the content they are applied to.
UnmatchedKeys(content, ov) ==
    (Names(ov.components) \ Names(content.components))
        \cup (Names(ov.commands) \ Names(content.commands))
        \cup (Names(ov.projects) \ Names(content.projects))

OverrideError(content, ov) ==
    [kind |-> "override", uri |-> "", prefix |-> "", keys |-> UnmatchedKeys(content, ov)]

\* apiOverride.OverrideDevWorkspaceTemplateSpec(content, overrides): the patched
\* copy, or no content and an error when a key is unmatched.
OverrideDevWorkspaceTemplateSpec(content, ov) ==
    IF UnmatchedKeys(content, ov) # {}
    THEN [content |-> None, err |-> Some(OverrideError(content, ov))]
    ELSE [content |-> Some([components |-> PatchList(content.components, ov.components),
                            commands |-> PatchList(content.commands, ov.commands),
                            projects |-> PatchList(content.projects, ov.projects)]),
          err |-> None]

RECURSIVE Concat(_)
Concat(seqs) == IF seqs = <<>> THEN <<>> ELSE Head(seqs) \o Concat(Tail(seqs))

IndexOf(list, n) == CHOOSE i \in 1..Len(list) : list[i].name = n

\* Lists merged in layer order: a later element replaces an earlier one of its name.
RECURSIVE MergeList(_, _)
MergeList(acc, rest) ==
    IF rest = <<>> THEN acc
    ELSE LET e == Head(rest)
         IN  MergeList(IF e.name \in Names(acc)
                       THEN [acc EXCEPT ![IndexOf(acc, e.name)] = e]
                       ELSE Append(acc, e),
                       Tail(rest))

\* The names that two elements of the layers give different content.
ConflictingNames(all) ==
    {all[i].name : i \in {k \in 1..Len(all) :
        \E j \in 1..Len(all) : all[j].name = all[k].name /\ all[j] # all[k]}}

\* The main content without its Plugin-variant components: a flattened
\* document keeps only the components the plugins expanded into.
DropPlugins(comps) == SelectSeq(comps, LAMBDA c : c.plugin = None)

MergeError(names) ==
    [kind |-> "merge", uri |-> "", prefix |-> "", keys |-> names]

\* apiOverride.MergeDevWorkspaceTemplateSpec(main, parent, plugins...).  The
\* layers are parent, plugins in order, main.  localWins is the collision
\* policy of the call: the more specific layer wins, or the merge fails.
MergeDevWorkspaceTemplateSpec(main, parent, plugins, localWins) ==
    LET comps == parent.components
                    \o Concat([i \in 1..Len(plugins) |-> plugins[i].components])
                    \o DropPlugins(main.components)
        cmds  == parent.commands
                    \o Concat([i \in 1..Len(plugins) |-> plugins[i].commands])
                    \o main.commands
        projs == parent.projects
                    \o Concat([i \in 1..Len(plugins) |-> plugins[i].projects])
                    \o main.projects
        bad   == ConflictingNames(comps) \cup ConflictingNames(cmds)
                    \cup ConflictingNames(projs)
    IN  IF bad # {} /\ ~localWins
        THEN [content |-> None, err |-> Some(MergeError(bad))]
        ELSE [content |-> Some([components |-> MergeList(<<>>, comps),
                                commands |-> MergeList(<<>>, cmds),
                                projects |-> MergeList(<<>>, projs)]),
              err |-> None]

------------------------------------------------------------------------------
\* The documents a run can load: the top-level document at "u0" and the
\* documents its references can name.  A document's status says how far
\* loading it gets: "unloadable" (Populate fails), "invalid" (Ctx.Validate
\* fails), "unsupported" (NewDevfileData fails), "malformed" (Unmarshal
\* fails) or "ok".

URIs == {"u0", "u1", "u2"}
TopURI == "u0"

Ref(u, o) == Some([uri |-> u, id |-> "", ov |-> o])

Doc(st, par, comps, cmds, projs) ==
    [status |-> st, parent |-> par,
     content |-> [components |-> comps, commands |-> cmds, projects |-> projs]]

BrokenDoc(st) == Doc(st, None, <<>>, <<>>, <<>>)

TopParents ==
    { None, Some(ZeroRef), Some([uri |-> "", id |-> "reg", ov |-> NoOverrides]),
      Ref("u1", NoOverrides), Ref("u1", OvComp("a", 3)), Ref("u1", OvComp("z", 3)) }

TopPlugins ==
    { <<>>,
      <<PluginComp("p", "u2", "", NoOverrides)>>,
      <<PluginComp("p", "u2", "", OvComp("b", 4))>>,
      <<PluginComp("p", "u2", "", OvCmd("z", 4))>>,
      <<PluginComp("p", "", "reg", NoOverrides)>>,
      <<PluginComp("p", "", "", NoOverrides)>>,
      <<PluginComp("p", "u2", "", NoOverrides), PluginComp("q", "u1", "", NoOverrides)>> }

TopLocals == { <<Comp("c", 1)>>, <<Comp("a", 2)>>, <<Comp("a", 1)>> }

DocChoices(u) ==
    IF u = "u0" THEN
        {BrokenDoc(st) : st \in {"unloadable", "invalid", "unsupported", "malformed"}}
        \cup {Doc("ok", par, loc \o plg, <<Elem("build", 1)>>, <<Elem("proj", 1)>>) :
                par \in TopParents, plg \in TopPlugins, loc \in TopLocals}
    ELSE IF u = "u1" THEN
        {BrokenDoc(st) : st \in {"unloadable", "malformed"}}
        \cup {Doc("ok", par, <<Comp("a", 1)>> \o plg, <<Elem("run", 1)>>, <<>>) :
                par \in {None, Ref("u2", NoOverrides), Ref("u1", NoOverrides)},
                plg \in {<<>>, <<PluginComp("r", "u2", "", NoOverrides)>>}}
    ELSE
        {BrokenDoc(st) : st \in {"unloadable", "invalid"}}
        \cup {Doc("ok", par, loc, <<>>, <<>>) :
                par \in {None, Ref("u0", NoOverrides)},
                loc \in {<<Comp("b", 1)>>, <<Comp("a", 2)>>, <<Comp("a", 1)>>}}

Worlds ==
    {[u \in URIs |-> IF u = "u0" THEN d0 ELSE IF u = "u1" THEN d1 ELSE d2] :
        d0 \in DocChoices("u0"), d1 \in DocChoices("u1"), d2 \in DocChoices("u2")}

------------------------------------------------------------------------------
\* State of one top-level parse call.

VARIABLES
    docs,       \* what each URI (or path, or byte buffer) holds
    entry,      \* the public entry point called, "" before the call
    pc,         \* "idle", "running", "done" (the call returned), "panic"
    stack,      \* call stack of parseDevfile frames, the top-level call first
    result,     \* the DevfileObj the top-level call returned
    err,        \* the error the top-level call returned
    fetchLog,   \* URIs of the references fetched by nested ParseFromURL calls
    origin,     \* the first error raised and the depth of the frame raising it
    handoff,    \* every reference resolved so far: resolved content, overrides, outcome
    mergeArgs,  \* the arguments of the top-level frame's merge
    deepest,    \* the deepest call stack reached
    syncIn,     \* addSyncFolder: container env, source root, projects
    syncOut     \* addSyncFolder: container env after the call, and the error

vars == <<docs, entry, pc, stack, result, err, fetchLog, origin, handoff,
          mergeArgs, deepest, syncIn, syncOut>>

resolverVars == <<docs, entry, pc, stack, result, err, fetchLog, origin, handoff,
                  mergeArgs, deepest>>

EntryPoints == {"Parse", "ParseRawDevfile", "ParseFromURL", "ParseFromData"}

\* Mutant: ParseRawDevfile passes true like the other entry points.
FlattenArgAlways(e) == TRUE

\* The flattenedDevfile argument each entry point passes to parseDevfile.
FlattenArg(e) == e # "ParseRawDevfile"

\* DevfileObj{}: no context, nil Data.
ZeroObj == [ctx |-> "", data |-> None]

Obj(u, d) == [ctx |-> u, data |-> d]

Err(k, u, p) == [kind |-> k, uri |-> u, prefix |-> p, keys |-> {}]

NewFrame(u, fl) ==
    [uri |-> u, flatten |-> fl, step |-> "populate", data |-> None,
     fp |-> EmptyContent, plugins |-> <<>>, idx |-> 1, ret |-> None]

Depth == Len(stack)
Cur == stack[Depth]

\* The stack with its top frame replaced.
SetCur(f) == [stack EXCEPT ![Depth] = f]

Returned(f, o, e) == [f EXCEPT !.step = "returned", !.ret = Some([obj |-> o, err |-> e])]

\* The first error of the run, with the depth of the frame it arose in.
RaiseAt(e, d) == IF origin = None THEN Some([err |-> e, depth |-> d]) ELSE origin

------------------------------------------------------------------------------
\* The entry points and parseDevfile.

Init ==
    /\ docs \in Worlds
    /\ entry = ""
    /\ pc = "idle"
    /\ stack = <<>>
    /\ result = ZeroObj
    /\ err = None
    /\ fetchLog = <<>>
    /\ origin = None
    /\ handoff = None
    /\ mergeArgs = None
    /\ deepest = 0
    /\ syncIn = None
    /\ syncOut = None

\* A caller invokes Parse, ParseRawDevfile, ParseFromURL or ParseFromData on
\* the top-level document: d.Ctx is created for its location.
Call(e) ==
    /\ pc = "idle"
    /\ entry' = e
    /\ pc' = "running"
    /\ stack' = <<NewFrame(TopURI, FlattenArg(e))>>
    /\ deepest' = 1
    /\ UNCHANGED <<docs, result, err, fetchLog, origin, handoff, mergeArgs,
                   syncIn, syncOut>>

\* The entry point that runs in a frame: the caller's for the top-level frame,
\* ParseFromURL for a frame parseParentAndPlugin opened.
EntryOf(d) == IF d = 1 THEN entry ELSE "ParseFromURL"

\* The error of a failed context population.  ParseFromData wraps the error of
\* SetDevfileContentFromBytes; Populate and PopulateFromURL errors are returned as is.
PopulateError(e, u) ==
    Err("load", u, IF e = "ParseFromData"
                   THEN "failed to set devfile content from bytes" ELSE "")

\* Parse / ParseRawDevfile / ParseFromURL / ParseFromData up to the call of
\* parseDevfile: fill the context, return d and the error when that fails.
Populate ==
    /\ pc = "running"
    /\ Cur.step = "populate"
    /\ fetchLog' = IF Depth > 1 THEN Append(fetchLog, Cur.uri) ELSE fetchLog
    /\ IF docs[Cur.uri].status = "unloadable"
       THEN LET e == PopulateError(EntryOf(Depth), Cur.uri)
            IN  /\ stack' = SetCur(Returned(Cur, Obj(Cur.uri, None), Some(e)))
                /\ origin' = RaiseAt(e, Depth)
       ELSE /\ stack' = SetCur([Cur EXCEPT !.step = "decode"])
            /\ UNCHANGED origin
    /\ UNCHANGED <<docs, entry, pc, result, err, handoff, mergeArgs, deepest,
                   syncIn, syncOut>>

\* json.Unmarshal into d.Data: the document as written, references unresolved.
Decoded(u) == [parent |-> docs[u].parent, content |-> docs[u].content]

\* The freshly created data object a failed Unmarshal leaves in d.Data.
BlankData == [parent |-> None, content |-> EmptyContent]

\* What parseDevfile returns when flattening is not requested (or is done).
RawReturn(f, d) == Returned([f EXCEPT !.data = Some(d)], Obj(f.uri, Some(d)), None)

\* parseDevfile from Validate to the flattenedDevfile test: each failure
\* returns d as it stands with the error; only the Unmarshal error is wrapped.
ParseDevfileDecode ==
    /\ pc = "running"
    /\ Cur.step = "decode"
    /\ LET st == docs[Cur.uri].status
           e  == IF st = "invalid" THEN Err("validate", Cur.uri, "")
                 ELSE IF st = "unsupported" THEN Err("version", Cur.uri, "")
                 ELSE Err("decode", Cur.uri, "failed to decode devfile content")
       IN  IF st = "ok"
           THEN /\ stack' = SetCur(IF Cur.flatten
                                   THEN [Cur EXCEPT !.data = Some(Decoded(Cur.uri)),
                                                    !.step = "parent"]
                                   ELSE RawReturn(Cur, Decoded(Cur.uri)))
                /\ UNCHANGED origin
           ELSE /\ stack' = SetCur(Returned(Cur,
                                Obj(Cur.uri, IF st = "malformed" THEN Some(BlankData)
                                             ELSE None),
                                Some(e)))
                /\ origin' = RaiseAt(e, Depth)
    /\ UNCHANGED <<docs, entry, pc, result, err, fetchLog, handoff, mergeArgs,
                   deepest, syncIn, syncOut>>

\* The top-level call returns to its caller.
Return ==
    /\ pc = "running"
    /\ Depth = 1
    /\ Cur.step = "returned"
    /\ result' = Cur.ret[1].obj
    /\ err' = Cur.ret[1].err
    /\ pc' = "done"
    /\ UNCHANGED <<docs, entry, stack, fetchLog, origin, handoff, mergeArgs,
                   deepest, syncIn, syncOut>>

------------------------------------------------------------------------------
\* parseParentAndPlugin.

\* The parent test: GetParent() != nil, not deep-equal to &v1.Parent{}, Uri != "".
HasParentToResolve(d) ==
    /\ d.parent # None
    /\ d.parent[1] # ZeroRef
    /\ d.parent[1].uri # ""

\* The plugin test: component.Plugin != nil and not deep-equal to &v1.PluginComponent{}.
IsPluginToResolve(c) ==
    /\ c.plugin # None
    /\ c.plugin[1] # ZeroRef

\* A frame that calls ParseFromURL(u) waits in step w for the callee's frame.
PushCall(w, u) ==
    /\ Depth < MaxDepth
    /\ stack' = Append(SetCur([Cur EXCEPT !.step = w]), NewFrame(u, TRUE))
    /\ deepest' = IF Depth + 1 > deepest THEN Depth + 1 ELSE deepest

\* Mutant: parseDevfile returns d, err instead of DevfileObj{}, err.
AbortKeepsDoc(f, e) == Returned(f, Obj(f.uri, f.data), e)

\* A failure inside parseParentAndPlugin: it returns the error and parseDevfile
\* returns DevfileObj{} with it.
Abort(f, e) == Returned(f, ZeroObj, e)

\* Lines 109-117: the parent reference is fetched and fully parsed, or skipped.
ResolveParent ==
    /\ pc = "running"
    /\ Cur.step = "parent"
    /\ IF HasParentToResolve(Cur.data[1])
       THEN PushCall("awaitParent", Cur.data[1].parent[1].uri)
       ELSE /\ stack' = SetCur([Cur EXCEPT !.step = "plugins"])
            /\ UNCHANGED deepest
    /\ UNCHANGED <<docs, entry, pc, result, err, fetchLog, origin, handoff,
                   mergeArgs, syncIn, syncOut>>

\* Mutant: a failed override is ignored and the content used as it is.
OverriddenIgnoresError(content, ov) ==
    IF ov # NoOverrides /\ OverrideDevWorkspaceTemplateSpec(content, ov).err = None
    THEN OverrideDevWorkspaceTemplateSpec(content, ov)
    ELSE [content |-> Some(content), err |-> None]

\* The content a resolved reference hands to the merge: the referenced
\* document's flattened content, overridden when the overrides are not default.
Overridden(content, ov) ==
    IF ov # NoOverrides
    THEN OverrideDevWorkspaceTemplateSpec(content, ov)
    ELSE [content |-> Some(content), err |-> None]

\* parentData.Data.GetDevfileWorkspace(): the content of the document that
\* ParseFromURL returned, which parseDevfile flattened.
ResolvedContent(r) == r.obj.data[1].content

\* flattenedParent is set to the parent's content.
WithParent(caller, content) == [caller EXCEPT !.fp = content, !.step = "plugins"]

\* Mutant: the plugin's content is not appended to plugins.
WithPluginDropped(caller, content) == [caller EXCEPT !.idx = @ + 1, !.step = "plugins"]

\* plugins = append(plugins, result), and the loop moves to the next component.
WithPlugin(caller, content) ==
    [caller EXCEPT !.plugins = Append(@, content), !.idx = @ + 1, !.step = "plugins"]

Handoff(u, content, ov, o) ==
    Some([uri |-> u, resolved |-> content, ov |-> ov, passed |-> o.content,
          err |-> o.err])

\* Lines 114-130: ParseFromURL(parent.Uri) returned to the frame below it.
ParentReturned ==
    /\ pc = "running"
    /\ Depth > 1
    /\ Cur.step = "returned"
    /\ stack[Depth - 1].step = "awaitParent"
    /\ LET caller == stack[Depth - 1]
           r      == Cur.ret[1]
           parent == caller.data[1].parent[1]
           rest   == SubSeq(stack, 1, Depth - 2)
       IN  IF r.err # None
           THEN /\ stack' = Append(rest, Abort(caller, r.err))
                /\ UNCHANGED <<origin, handoff>>
           ELSE LET content == ResolvedContent(r)
                    o       == Overridden(content, parent.ov)
                IN  /\ handoff' = Handoff(parent.uri, content, parent.ov, o)
                    /\ IF o.err # None
                       THEN /\ stack' = Append(rest, Abort(caller, o.err))
                            /\ origin' = RaiseAt(o.err[1], Depth - 1)
                       ELSE /\ stack' = Append(rest, WithParent(caller, o.content[1]))
                            /\ UNCHANGED origin
    /\ UNCHANGED <<docs, entry, pc, result, err, fetchLog, mergeArgs, deepest,
                   syncIn, syncOut>>

\* Lines 137-138: a component that is no plugin to resolve is passed over.
SkipComponent ==
    /\ pc = "running"
    /\ Cur.step = "plugins"
    /\ Cur.idx <= Len(Cur.data[1].content.components)
    /\ ~IsPluginToResolve(Cur.data[1].content.components[Cur.idx])
    /\ stack' = SetCur([Cur EXCEPT !.idx = @ + 1])
    /\ UNCHANGED <<docs, entry, pc, result, err, fetchLog, origin, handoff,
                   mergeArgs, deepest, syncIn, syncOut>>

\* Lines 139-146: a plugin with a uri is fetched and fully parsed.
ResolvePlugin ==
    /\ pc = "running"
    /\ Cur.step = "plugins"
    /\ Cur.idx <= Len(Cur.data[1].content.components)
    /\ IsPluginToResolve(Cur.data[1].content.components[Cur.idx])
    /\ Cur.data[1].content.components[Cur.idx].plugin[1].uri # ""
    /\ PushCall("awaitPlugin", Cur.data[1].content.components[Cur.idx].plugin[1].uri)
    /\ UNCHANGED <<docs, entry, pc, result, err, fetchLog, origin, handoff,
                   mergeArgs, syncIn, syncOut>>

\* Lines 140-147: a plugin to resolve with an empty uri leaves pluginData the
\* zero DevfileObj; pluginData.Data is nil and GetDevfileWorkspace() on it
\* is a nil dereference: the goroutine panics.
PluginWithoutUri ==
    /\ pc = "running"
    /\ Cur.step = "plugins"
    /\ Cur.idx <= Len(Cur.data[1].content.components)
    /\ IsPluginToResolve(Cur.data[1].content.components[Cur.idx])
    /\ Cur.data[1].content.components[Cur.idx].plugin[1].uri = ""
    /\ pc' = "panic"
    /\ UNCHANGED <<docs, entry, stack, result, err, fetchLog, origin, handoff,
                   mergeArgs, deepest, syncIn, syncOut>>

\* Lines 142-155: ParseFromURL(plugin.Uri) returned to the frame below it.
PluginReturned ==
    /\ pc = "running"
    /\ Depth > 1
    /\ Cur.step = "returned"
    /\ stack[Depth - 1].step = "awaitPlugin"
    /\ LET caller == stack[Depth - 1]
           r      == Cur.ret[1]
           plugin == caller.data[1].content.components[caller.idx].plugin[1]
           rest   == SubSeq(stack, 1, Depth - 2)
       IN  IF r.err # None
           THEN /\ stack' = Append(rest, Abort(caller, r.err))
                /\ UNCHANGED <<origin, handoff>>
           ELSE LET content == ResolvedContent(r)
                    o       == Overridden(content, plugin.ov)
                IN  /\ handoff' = Handoff(plugin.uri, content, plugin.ov, o)
                    /\ IF o.err # None
                       THEN /\ stack' = Append(rest, Abort(caller, o.err))
                            /\ origin' = RaiseAt(o.err[1], Depth - 1)
                       ELSE /\ stack' = Append(rest, WithPlugin(caller, o.content[1]))
                            /\ UNCHANGED origin
    /\ UNCHANGED <<docs, entry, pc, result, err, fetchLog, mergeArgs, deepest,
                   syncIn, syncOut>>

\* Mutant: SetParent(nil) is left out.
FlattenedKeepsParent(merged) == [parent |-> Cur.data[1].parent, content |-> merged]

\* Mutant: the parent's content is stored instead of the merged content.
FlattenedStoresParent(merged) == [parent |-> None, content |-> Cur.fp]

\* SetDevfileWorkspace(merged) and SetParent(nil) on the frame's document.
Flattened(merged) == [parent |-> None, content |-> merged]

\* Lines 158-166: merge the local content with the parent's and the plugins',
\* store the merged content, clear the parent, return nil.
Merge ==
    /\ pc = "running"
    /\ Cur.step = "plugins"
    /\ Cur.idx > Len(Cur.data[1].content.components)
    /\ \E localWins \in BOOLEAN :
         LET m == MergeDevWorkspaceTemplateSpec(Cur.data[1].content, Cur.fp,
                                                Cur.plugins, localWins)
         IN  /\ mergeArgs' = Some([main |-> Cur.data[1].content, parent |-> Cur.fp,
                                   plugins |-> Cur.plugins, depth |-> Depth])
             /\ IF m.err # None
                THEN /\ stack' = SetCur(Abort(Cur, m.err))
                     /\ origin' = RaiseAt(m.err[1], Depth)
                ELSE /\ stack' = SetCur(RawReturn(Cur, Flattened(m.content[1])))
                     /\ UNCHANGED origin
    /\ UNCHANGED <<docs, entry, pc, result, err, fetchLog, handoff, deepest,
                   syncIn, syncOut>>

Next ==
    \/ \E e \in EntryPoints : Call(e)
    \/ Populate
    \/ ParseDevfileDecode
    \/ ResolveParent
    \/ ParentReturned
    \/ SkipComponent
    \/ ResolvePlugin
    \/ PluginWithoutUri
    \/ PluginReturned
    \/ Merge
    \/ Return

Spec == Init /\ [][Next]_vars

------------------------------------------------------------------------------
\* The generator's addSyncFolder.  Strings are sequences of characters.

Alphabet == {"/", ".", "s"}

RECURSIVE StringsUpTo(_)
StringsUpTo(n) ==
    IF n = 0 THEN {<<>>}
    ELSE LET shorter == StringsUpTo(n - 1)
         IN  shorter \cup {Append(t, c) : t \in shorter, c \in Alphabet}

\* strings.HasPrefix(s, p)
HasPrefix(s, p) == Len(s) >= Len(p) /\ SubSeq(s, 1, Len(p)) = p

\* strings.Contains(s, sub)
Contains(s, sub) ==
    \E i \in 1..(Len(s) - Len(sub) + 1) : SubSeq(s, i, i + Len(sub) - 1) = sub

\* The segments of a path between its separators (empty segments included).
RECURSIVE Split(_, _, _)
Split(path, i, seg) ==
    IF i > Len(path) THEN <<seg>>
    ELSE IF path[i] = "/" THEN <<seg>> \o Split(path, i + 1, <<>>)
    ELSE Split(path, i + 1, Append(seg, path[i]))

\* The segments filepath.Clean keeps: empty and "." segments are dropped, a
\* ".." removes the segment before it, or stays when the path is not rooted
\* and nothing is left to remove.
RECURSIVE CleanSegs(_, _, _)
CleanSegs(segs, out, rooted) ==
    IF segs = <<>> THEN out
    ELSE LET g == Head(segs)
         IN  IF g = <<>> \/ g = <<".">> THEN CleanSegs(Tail(segs), out, rooted)
             ELSE IF g = <<".", ".">>
             THEN IF out # <<>> /\ out[Len(out)] # <<".", ".">>
                  THEN CleanSegs(Tail(segs), SubSeq(out, 1, Len(out) - 1), rooted)
                  ELSE IF rooted THEN CleanSegs(Tail(segs), out, rooted)
                  ELSE CleanSegs(Tail(segs), Append(out, g), rooted)
             ELSE CleanSegs(Tail(segs), Append(out, g), rooted)

RECURSIVE JoinSegs(_)
JoinSegs(segs) ==
    IF segs = <<>> THEN <<>>
    ELSE IF Len(segs) = 1 THEN segs[1]
    ELSE segs[1] \o <<"/">> \o JoinSegs(Tail(segs))

\* filepath.Clean(path)
Clean(path) ==
    IF path = <<>> THEN <<".">>
    ELSE LET rooted == path[1] = "/"
             body   == JoinSegs(CleanSegs(Split(path, 1, <<>>), <<>>, rooted))
         IN  IF rooted THEN <<"/">> \o body
             ELSE IF body = <<>> THEN <<".">> ELSE body

\* filepath.Join(a, b): empty elements are ignored, the rest joined and cleaned.
\* filepath.ToSlash leaves the result as it is where the separator is "/".
Join(a, b) ==
    IF a = <<>> /\ b = <<>> THEN <<>>
    ELSE IF a = <<>> THEN Clean(b)
    ELSE IF b = <<>> THEN Clean(a)
    ELSE Clean(a \o <<"/">> \o b)

EnvProjectsSrc == "PROJECT_SOURCE"
EnvProjectsRoot == "PROJECTS_ROOT"

EnvVar(n, v) == [name |-> n, value |-> v]

ClonePathError(k, project) ==
    [kind |-> k, clonePath |-> project.clonePath, project |-> project.name]

\* Mutant: the ".." test is left out.
ClonePathCheckRelativeOnly(project) ==
    IF project.clonePath # <<>> /\ HasPrefix(project.clonePath, <<"/">>)
    THEN Some(ClonePathError("must be a relative path", project))
    ELSE None

\* The clonePath rule on the first project: the error, or None.
ClonePathCheck(project) ==
    IF project.clonePath = <<>> THEN None
    ELSE IF HasPrefix(project.clonePath, <<"/">>)
    THEN Some(ClonePathError("must be a relative path", project))
    ELSE IF Contains(project.clonePath, <<".", ".">>)
    THEN Some(ClonePathError("cannot escape $PROJECTS_ROOT", project))
    ELSE None

\* The sync folder of lines 83-100 when the clonePath rule holds.
SyncFolder(sourceVolumePath, projects) ==
    IF Len(projects) = 0 THEN sourceVolumePath
    ELSE IF projects[1].clonePath # <<>>
    THEN Join(sourceVolumePath, projects[1].clonePath)
    ELSE Join(sourceVolumePath, projects[1].name)

\* addSyncFolder(container, sourceVolumePath, projects): the container's env
\* after the call and the returned error.
addSyncFolder(env, sourceVolumePath, projects) ==
    LET e == IF Len(projects) = 0 THEN None ELSE ClonePathCheck(projects[1])
    IN  IF e # None
        THEN [env |-> env, err |-> e]
        ELSE [env |-> Append(env, EnvVar(EnvProjectsSrc,
                                         SyncFolder(sourceVolumePath, projects))),
              err |-> None]

SourceRoots == {<<"/", "p">>, <<"/", "p", "/">>, <<"p">>}
ProjectNames == {<<"m">>, <<"s", ".", ".">>}
Project(n, c) == [name |-> n, clonePath |-> c]
OtherProjects == {Project(<<"o">>, c) : c \in {<<>>, <<"/", "s">>, <<".", ".">>}}

ProjectLists ==
    {<<>>}
    \cup {<<Project(n, c)>> : n \in ProjectNames, c \in StringsUpTo(MaxLen)}
    \cup {<<Project(<<"m">>, c), o>> : c \in StringsUpTo(MaxLen), o \in OtherProjects}

SyncInputs ==
    {[env |-> env, root |-> r, projects |-> ps] :
        env \in {<<>>, <<EnvVar(EnvProjectsRoot, <<"/", "p">>)>>},
        r \in SourceRoots, ps \in ProjectLists}

InitSync ==
    /\ docs = [u \in URIs |-> BrokenDoc("unloadable")]
    /\ entry = ""
    /\ pc = "sync"
    /\ stack = <<>>
    /\ result = ZeroObj
    /\ err = None
    /\ fetchLog = <<>>
    /\ origin = None
    /\ handoff = None
    /\ mergeArgs = None
    /\ deepest = 0
    /\ syncIn \in {Some(i) : i \in SyncInputs}
    /\ syncOut = None

\* The generator calls addSyncFolder on a container.
AddSyncFolder ==
    /\ pc = "sync"
    /\ syncOut = None
    /\ syncOut' = Some(addSyncFolder(syncIn[1].env, syncIn[1].root, syncIn[1].projects))
    /\ UNCHANGED <<resolverVars, syncIn>>

NextSync == AddSyncFolder

SpecSync == InitSync /\ [][NextSync]_vars

------------------------------------------------------------------------------
\* Properties.

Components(d) == d.content.components

NoPluginComponent(d) == \A i \in 1..Len(Components(d)) : Components(d)[i].plugin = None

\* A frame whose parseDevfile(d, true) has returned without error.
FlattenedOK(f) == f.flatten /\ f.step = "returned" /\ f.ret[1].err = None

\* C1: whenever parseDevfile(d, true) returns without error, at the top level
\* or for a referenced document at any depth, the returned document has no
\* parent and no Plugin-variant component.
C1_FlattenedHasNoReference ==
    /\ \A i \in 1..Depth :
         FlattenedOK(stack[i]) =>
            /\ stack[i].ret[1].obj.data # None
            /\ stack[i].ret[1].obj.data[1].parent = None
            /\ NoPluginComponent(stack[i].ret[1].obj.data[1])
    /\ (pc = "done" /\ FlattenArg(entry) /\ err = None) =>
            /\ result.data # None
            /\ result.data[1].parent = None
            /\ NoPluginComponent(result.data[1])

\* C1 witness: a top-level flatten of a document with a parent and a plugin
\* returned without error after fetching both.
C1_Witness ==
    /\ pc = "done" /\ FlattenArg(entry) /\ err = None
    /\ HasParentToResolve(Decoded(TopURI))
    /\ ~NoPluginComponent(Decoded(TopURI))
    /\ Len(fetchLog) >= 3
    /\ result.data[1].parent = None

\* The failures C2 is about: a referenced document's fetch or decode (any
\* failure below the top-level frame), an override or a merge at any depth.
InFlattenFailure(o) == o.depth > 1 \/ o.err.kind \in {"override", "merge"}

\* The document of a frame as decoding left it: SetDevfileWorkspace and
\* SetParent(nil) have not been applied to it.
Untouched(f) == f.data \in {None, Some(Decoded(f.uri)), Some(BlankData)}

\* C2: a failure at any depth of a flatten makes the top-level parseDevfile
\* return DevfileObj{} and the originating error, and no document on the
\* failing path has had SetDevfileWorkspace / SetParent(nil) applied.
C2_FailedFlattenReturnsNothing ==
    /\ \A i \in 1..Depth :
         (stack[i].step = "returned" /\ stack[i].ret[1].err # None) =>
            /\ Untouched(stack[i])
            /\ origin # None
            /\ stack[i].ret[1].err = Some(origin[1].err)
            /\ (i < origin[1].depth \/ origin[1].err.kind \in {"override", "merge"})
                    => stack[i].ret[1].obj = ZeroObj
    /\ (pc = "done" /\ origin # None /\ InFlattenFailure(origin[1])) =>
            /\ result = ZeroObj
            /\ err = Some(origin[1].err)

\* C2 witness: the fetch of a reference two levels down failed and the
\* top-level call returned.
C2_Witness ==
    /\ pc = "done"
    /\ origin # None
    /\ origin[1].depth = 3
    /\ origin[1].err.kind = "load"
    /\ result = ZeroObj

\* C4: ParseRawDevfile fetches no reference and returns the document exactly
\* as decoded; the other three entry points call parseDevfile with flatten.
C4_RawModeResolvesNothing ==
    /\ entry = "ParseRawDevfile" => fetchLog = <<>> /\ Depth <= 1 /\ mergeArgs = None
    /\ (pc = "done" /\ entry = "ParseRawDevfile" /\ err = None) =>
            result = Obj(TopURI, Some(Decoded(TopURI)))
    /\ Depth >= 1 =>
            (stack[1].flatten <=> entry \in {"Parse", "ParseFromURL", "ParseFromData"})

\* C4 witness: a raw parse returned a document that still has its parent
\* reference and its plugin component.
C4_Witness ==
    /\ pc = "done" /\ entry = "ParseRawDevfile" /\ err = None
    /\ HasParentToResolve(result.data[1])
    /\ \E i \in 1..Len(Components(result.data[1])) :
          IsPluginToResolve(Components(result.data[1])[i])

\* The current frame's loop stands at a plugin to resolve whose uri is empty.
AtPluginWithoutUri ==
    /\ pc = "running"
    /\ Cur.step = "plugins"
    /\ Cur.idx <= Len(Components(Cur.data[1]))
    /\ IsPluginToResolve(Components(Cur.data[1])[Cur.idx])
    /\ Components(Cur.data[1])[Cur.idx].plugin[1].uri = ""

\* C3: a non-default plugin with an empty uri does not fail the flatten: it
\* contributes an empty WorkspaceContent to the merge, nothing is fetched for
\* it, and the flatten goes on.
C3_PluginWithoutUriContributesNothing ==
    [][AtPluginWithoutUri =>
            /\ pc' = "running"
            /\ fetchLog' = fetchLog
            /\ stack' = SetCur(WithPlugin(Cur, EmptyContent))]_vars

TopDoc == Decoded(TopURI)

PluginIndices(d) == {i \in 1..Len(Components(d)) : Components(d)[i].plugin # None}

\* A document with a parent uri and exactly one plugin component with a uri,
\* neither with overrides.
ParentAndOnePlugin(d) ==
    /\ HasParentToResolve(d)
    /\ d.parent[1].ov = NoOverrides
    /\ Cardinality(PluginIndices(d)) = 1
    /\ \A i \in PluginIndices(d) :
          /\ Components(d)[i].plugin[1].uri # ""
          /\ Components(d)[i].plugin[1].ov = NoOverrides

Disjoint3(a, b, c) == a \cap b = {} /\ a \cap c = {} /\ b \cap c = {}

\* The names of the parent's, the plugin's and the local elements are
\* pairwise distinct in a merge of one parent and one plugin.
DistinctNames(a) ==
    /\ Len(a.plugins) = 1
    /\ Disjoint3(Names(a.parent.components), Names(a.plugins[1].components),
                 Names(DropPlugins(a.main.components)))
    /\ Disjoint3(Names(a.parent.commands), Names(a.plugins[1].commands),
                 Names(a.main.commands))
    /\ Disjoint3(Names(a.parent.projects), Names(a.plugins[1].projects),
                 Names(a.main.projects))

FlatDocOf(comps) == [parent |-> None, content |->
                        [components |-> comps, commands |-> <<>>, projects |-> <<>>]]

\* C5: a document with parent P and one plugin Q, no overrides and pairwise
\* distinct names, flattens without error to exactly the components of P, of
\* Q and its own ordinary components, with no parent; when P holds {a}, Q holds
\* {b} and the document declares {c}, to {a, b, c}.
C5_FlattenIsUnionOfLayers ==
    (pc = "done" /\ FlattenArg(entry) /\ docs[TopURI].status = "ok"
        /\ ParentAndOnePlugin(TopDoc)) =>
      /\ (origin = None \/ (mergeArgs # None /\ mergeArgs[1].depth = 1)) =>
            /\ mergeArgs # None
            /\ mergeArgs[1].depth = 1
            /\ mergeArgs[1].main = TopDoc.content
            /\ Len(mergeArgs[1].plugins) = 1
            /\ DistinctNames(mergeArgs[1]) =>
                  /\ err = None
                  /\ result.data # None
                  /\ result.data[1].parent = None
                  /\ Range(Components(result.data[1]))
                        = Range(mergeArgs[1].parent.components)
                            \cup Range(mergeArgs[1].plugins[1].components)
                            \cup Range(DropPlugins(TopDoc.content.components))
                  /\ Len(Components(result.data[1]))
                        = Len(mergeArgs[1].parent.components)
                            + Len(mergeArgs[1].plugins[1].components)
                            + Len(DropPlugins(TopDoc.content.components))
      /\ ( /\ Decoded("u1").content.components = <<Comp("a", 1)>>
           /\ Decoded("u1").parent = None /\ docs["u1"].status = "ok"
           /\ Decoded("u2") = FlatDocOf(<<Comp("b", 1)>>) /\ docs["u2"].status = "ok"
           /\ DropPlugins(TopDoc.content.components) = <<Comp("c", 1)>>
           /\ TopDoc.parent[1].uri = "u1"
           /\ \A i \in PluginIndices(TopDoc) : Components(TopDoc)[i].plugin[1].uri = "u2" ) =>
            /\ err = None
            /\ result.data # None
            /\ result.data[1].parent = None
            /\ Range(Components(result.data[1])) = {Comp("a", 1), Comp("b", 1), Comp("c", 1)}
            /\ Len(Components(result.data[1])) = 3

\* C5 witness: parent {a}, plugin {b}, local {c} flattened to {a, b, c}.
C5_Witness ==
    /\ pc = "done" /\ FlattenArg(entry) /\ err = None
    /\ ParentAndOnePlugin(TopDoc)
    /\ fetchLog = <<"u1", "u2">>
    /\ Range(Components(result.data[1])) = {Comp("a", 1), Comp("b", 1), Comp("c", 1)}
    /\ result.data[1].parent = None

\* A list differs from another only at the elements the patches name.
DiffersOnlyAt(after, before, patches) ==
    /\ Len(after) = Len(before)
    /\ \A i \in 1..Len(before) :
          /\ after[i].name = before[i].name
          /\ before[i].name \notin Names(patches) => after[i] = before[i]
          /\ before[i].name \in Names(patches) =>
                \E k \in 1..Len(patches) :
                    patches[k].name = before[i].name /\ after[i].val = patches[k].val

AllKeysMatch(content, ov) ==
    /\ Names(ov.components) \subseteq Names(content.components)
    /\ Names(ov.commands) \subseteq Names(content.commands)
    /\ Names(ov.projects) \subseteq Names(content.projects)

\* C7: overrides are applied to the fully resolved content of the referenced
\* document.  Default overrides pass the content on unmodified; overrides
\* whose keys all match change only the overridden elements; an unmatched key
\* produces no content and an error, and the enclosing flatten aborts with it.
C7_OverrideTotalOrFail ==
    handoff # None =>
      LET h == handoff[1]
      IN  /\ \A i \in 1..Len(h.resolved.components) : h.resolved.components[i].plugin = None
          /\ h.ov = NoOverrides => h.err = None /\ h.passed = Some(h.resolved)
          /\ (h.ov # NoOverrides /\ AllKeysMatch(h.resolved, h.ov)) =>
                /\ h.err = None
                /\ h.passed # None
                /\ DiffersOnlyAt(h.passed[1].components, h.resolved.components, h.ov.components)
                /\ DiffersOnlyAt(h.passed[1].commands, h.resolved.commands, h.ov.commands)
                /\ DiffersOnlyAt(h.passed[1].projects, h.resolved.projects, h.ov.projects)
          /\ (h.ov # NoOverrides /\ ~AllKeysMatch(h.resolved, h.ov)) =>
                /\ h.passed = None
                /\ h.err # None
                /\ pc \in {"running", "done"}
                /\ Cur.step = "returned"
                /\ Cur.ret[1] = [obj |-> ZeroObj, err |-> h.err]
                /\ pc = "done" => result = ZeroObj /\ err = h.err

\* C7 witness: a parent's override of a matched key changed that element.
C7_Witness ==
    /\ handoff # None
    /\ handoff[1].ov # NoOverrides
    /\ AllKeysMatch(handoff[1].resolved, handoff[1].ov)
    /\ handoff[1].passed # None
    /\ handoff[1].passed # Some(handoff[1].resolved)
    /\ Len(handoff[1].resolved.components) >= 2

\* C7 second case reached: an override with an unmatched key aborted the flatten.
C7_UnmatchedReached ==
    /\ handoff # None
    /\ handoff[1].err # None
    /\ pc = "done"

\* A document with no parent reference and no Plugin-variant component.
IsFlat(d) == d.parent = None /\ NoPluginComponent(d)

MergedAlone(content, localWins) ==
    MergeDevWorkspaceTemplateSpec(content, EmptyContent, <<>>, localWins)

\* C8: flattening a flat document fetches nothing and returns the content
\* that raw parsing returns; flattening the result again changes nothing.
C8_FlatteningFlatIsIdentity ==
    (entry # "" /\ FlattenArg(entry) /\ docs[TopURI].status = "ok" /\ IsFlat(TopDoc)) =>
        /\ fetchLog = <<>>
        /\ Depth = 1
        /\ pc # "panic"
        /\ pc = "done" =>
              /\ err = None
              /\ result.data # None
              /\ result.data[1].content = TopDoc.content
              /\ IsFlat(result.data[1])
              /\ \A lw \in BOOLEAN :
                    MergedAlone(result.data[1].content, lw)
                        = [content |-> Some(result.data[1].content), err |-> None]

\* C8 witness: a flat document was flattened and returned.
C8_Witness ==
    /\ pc = "done" /\ FlattenArg(entry) /\ err = None
    /\ docs[TopURI].status = "ok" /\ IsFlat(TopDoc)
    /\ Len(Components(result.data[1])) >= 1
    /\ mergeArgs # None

\* A clonePath that starts with "/" or holds two dots in a row.
BreaksClonePathRule(c) ==
    \/ (Len(c) >= 1 /\ c[1] = "/")
    \/ \E i \in 1..(Len(c) - 1) : c[i] = "." /\ c[i + 1] = "."

PlainName(c) == c # <<>> /\ \A i \in 1..Len(c) : c[i] \notin {"/", "."}

\* C9: addSyncFolder rejects a first project whose clonePath starts with "/"
\* or contains "..", naming the clonePath and the project and leaving the env
\* as it was; otherwise it appends exactly one PROJECT_SOURCE variable: the
\* root joined with the clonePath, or with the project name when the
\* clonePath is empty, or the root itself when there are no projects.
C9_ClonePathRule ==
    syncOut # None =>
      LET in  == syncIn[1]
          out == syncOut[1]
      IN  IF in.projects = <<>>
          THEN /\ out.err = None
               /\ out.env = Append(in.env, EnvVar("PROJECT_SOURCE", in.root))
          ELSE LET p == in.projects[1]
               IN  IF BreaksClonePathRule(p.clonePath)
                   THEN /\ out.err # None
                        /\ out.err[1].clonePath = p.clonePath
                        /\ out.err[1].project = p.name
                        /\ out.env = in.env
                   ELSE /\ out.err = None
                        /\ Len(out.env) = Len(in.env) + 1
                        /\ SubSeq(out.env, 1, Len(in.env)) = in.env
                        /\ out.env[Len(out.env)].name = "PROJECT_SOURCE"
                        /\ out.env[Len(out.env)].value =
                              Join(in.root, IF p.clonePath = <<>> THEN p.name
                                            ELSE p.clonePath)
                        /\ (in.root = <<"/", "p">> /\ PlainName(p.clonePath)) =>
                              out.env[Len(out.env)].value = <<"/", "p", "/">> \o p.clonePath
                        /\ (in.root = <<"/", "p">> /\ p.clonePath = <<>> /\ PlainName(p.name)) =>
                              out.env[Len(out.env)].value = <<"/", "p", "/">> \o p.name

\* C9 witness: root "/p" and clonePath "s" gave the sync path "/p/s".
C9_Witness ==
    /\ syncOut # None
    /\ syncIn[1].root = <<"/", "p">>
    /\ Len(syncIn[1].projects) >= 1
    /\ syncIn[1].projects[1].clonePath = <<"s">>
    /\ syncOut[1].err = None
    /\ syncOut[1].env = Append(syncIn[1].env, EnvVar("PROJECT_SOURCE", <<"/", "p", "/", "s">>))

\* C9 rejection reached: a clonePath with ".." inside was rejected.
C9_RejectReached ==
    /\ syncOut # None
    /\ Len(syncIn[1].projects) >= 1
    /\ syncIn[1].projects[1].clonePath = <<"s", ".", ".">>
    /\ syncOut[1].err # None

\* The references parseParentAndPlugin follows from the document at u.
References(u) ==
    IF docs[u].status # "ok" THEN {}
    ELSE (IF HasParentToResolve(Decoded(u)) THEN {Decoded(u).parent[1].uri} ELSE {})
         \cup {Components(Decoded(u))[i].plugin[1].uri :
                 i \in {k \in 1..Len(Components(Decoded(u))) :
                          /\ IsPluginToResolve(Components(Decoded(u))[k])
                          /\ Components(Decoded(u))[k].plugin[1].uri # ""}}

Max(S) == CHOOSE x \in S : \A y \in S : y <= x

\* The longest chain of references from u, followed for at most n references.
RECURSIVE ChainLen(_, _)
ChainLen(u, n) ==
    IF n = 0 \/ References(u) = {} THEN 0
    ELSE 1 + Max({ChainLen(v, n - 1) : v \in References(u)})

\* With Cardinality(URIs) documents, a chain that long repeats a document.
AcyclicReferences == ChainLen(TopURI, Cardinality(URIs)) < Cardinality(URIs)

\* The parent chain from u, followed for at most n parents.
RECURSIVE ParentChainLen(_, _)
ParentChainLen(u, n) ==
    IF n = 0 \/ docs[u].status # "ok" \/ ~HasParentToResolve(Decoded(u)) THEN 0
    ELSE 1 + ParentChainLen(Decoded(u).parent[1].uri, n - 1)

CyclicParentChain == ParentChainLen(TopURI, Cardinality(URIs)) = Cardinality(URIs)

\* The current frame is about to call ParseFromURL.
AboutToCall ==
    /\ pc = "running"
    /\ \/ Cur.step = "parent" /\ HasParentToResolve(Cur.data[1])
       \/ /\ Cur.step = "plugins"
          /\ Cur.idx <= Len(Components(Cur.data[1]))
          /\ IsPluginToResolve(Components(Cur.data[1])[Cur.idx])
          /\ Components(Cur.data[1])[Cur.idx].plugin[1].uri # ""

\* C10: with an acyclic reference graph and no failing fetch, decode, override
\* or merge, a flatten ends with a flattened document after a recursion as
\* deep as the longest reference chain; with a cyclic parent chain it never
\* returns.
C10_TerminationFollowsGraph ==
    (entry # "" /\ FlattenArg(entry)) =>
      /\ (AcyclicReferences /\ origin = None) =>
            /\ pc # "panic"
            /\ Depth <= 1 + ChainLen(TopURI, Cardinality(URIs))
            /\ pc = "running" => ENABLED Next
            /\ pc = "done" =>
                  /\ err = None
                  /\ result.data # None
                  /\ result.data[1].parent = None
                  /\ deepest = 1 + ChainLen(TopURI, Cardinality(URIs))
      /\ CyclicParentChain => pc = "running" /\ origin = None

\* C10 without the documents that hold a plugin with an empty uri (the
\* failure of C3): the statement of C10 holds of every other document.
NoPluginWithoutUri ==
    \A u \in URIs : \A i \in 1..Len(Components(Decoded(u))) :
        IsPluginToResolve(Components(Decoded(u))[i])
            => Components(Decoded(u))[i].plugin[1].uri # ""

C10_HoldsButForNilPluginData == NoPluginWithoutUri => C10_TerminationFollowsGraph

\* A flatten of an acyclic graph three documents deep ended.
C10_AcyclicReached ==
    /\ pc = "done" /\ FlattenArg(entry) /\ err = None
    /\ AcyclicReferences
    /\ deepest = 3

\* A flatten of a cyclic parent chain went as deep as the model follows it.
C10_CyclicReached ==
    /\ CyclicParentChain
    /\ Depth = MaxDepth
    /\ AboutToCall

====
